---- MODULE Spec2Model ----
(***************************************************************************)
(* Model of mongoclusterbackup.py: the BackupCluster coordinator           *)
(* (backup / run_step), the rollback_steps list, the fan-out phases with   *)
(* their worker threads and error queue, and the cluster objects the       *)
(* steps act on (balancer flag, config server process, shard fsync locks,  *)
(* LVM snapshots and mounts on the hosts).                                 *)
(*                                                                         *)
(* The cluster is the environment: whether a write, a service command or   *)
(* an LVM/mount command takes effect is chosen nondeterministically; what  *)
(* the program then does with the observed result is taken from the code.  *)
(***************************************************************************)
EXTENDS Integers, Sequences, FiniteSets, TLC

(* ---------------------------------------------------------------- bounds *)

NumShards == 2

NumHosts == 2

Shards == 1..NumShards

Hosts == 1..NumHosts

\* members per replica set in a replSetGetStatus reply
MaxMembers == 2

\* optimeDate values: two are enough for an order and for a tie
OptimeDates == {1, 2}

(* ----------------------------------------------------- program constants *)

\* wait_for_locks: "retries < 360"
MaxRetries == 360

\* backup(): thirteen run_step calls
NumSteps == 13

VARIABLES
    pc,              \* position of the control thread
    mode,            \* "forward": run_step's function; "rollback": the drain loop
    step,            \* index of the current run_step call in backup()
    i,               \* run_step's loop variable (0-based try index)
    drainIdx,        \* position of "for step in self.rollback_steps"
    rollback_steps,  \* BackupCluster.rollback_steps
    stopped,         \* config.settings balancer document, field "stopped"
    running,         \* mongod process of the selected config server
    dumped,          \* config database dump written
    is_locked,       \* per shard member: client.is_locked
    held,            \* config.locks holds a document with state 2
    retries,         \* wait_for_locks' local counter
    lv,              \* per host: the snapshot volume exists
    snapshot_path,   \* per host: BackupHost.snapshot_path is non-empty
    mnt,             \* per host: the snapshot is mounted at mount_point
    tar,             \* per host: the archive was written
    errors,          \* the phase's Queue.Queue of error messages
    pending,         \* worker threads started and not yet finished
    \* ---- observation (history) variables, never read by the actions
    stopped0,        \* the balancer flag before the job
    attempts,        \* per step: number of times its function was called
    succeeded,       \* per step: its function returned without exception
    delays,          \* number of time.sleep(2) executed by run_step
    pushed,          \* compensators in the order they were inserted
    drainTrace,      \* compensators in the order the drain called them
    drainResult,     \* per drainTrace entry: TRUE iff it did not raise
    fwdTrace,        \* forward functions in the order they were called
    snapUnlocked,    \* some create_snapshot ran while a shard was unlocked
    snap,            \* per host: life-cycle state of the snapshot
    tried,           \* per host: the operations whose thread ran on it
    opFailed,        \* some operation of the running phase did not do its work
    lastUnlock,      \* the last unlock_shards call: shards visited, outcome
    \* ---- BackupCluster.__init__
    shards,          \* get_shards' local list "shards"
    lastDoc,         \* the shard document get_shards is looking at
    noTarget         \* some document showed no secondary in health and no primary

coord == <<pc, mode, step, i, drainIdx>>

cluster == <<stopped, running, dumped, is_locked>>

hostState == <<lv, snapshot_path, mnt, tar, snap, tried>>

phaseState == <<errors, pending, opFailed>>

callHist == <<attempts, drainTrace, fwdTrace>>

retHist == <<succeeded, drainResult>>

ctorState == <<shards, lastDoc, noTarget>>

vars == <<pc, mode, step, i, drainIdx, rollback_steps, stopped, running,
          dumped, is_locked, held, retries, lv, snapshot_path, mnt, tar,
          errors, pending, stopped0, attempts, succeeded, delays, pushed,
          drainTrace, drainResult, fwdTrace, snapUnlocked, snap, tried,
          opFailed, lastUnlock, shards, lastDoc, noTarget>>

(* ------------------------------------------------ backup(): the runlist *)

\* Variant of StepFn: create_snapshots is run before lock_shards.
StepFn_SnapshotFirst(k) ==
    CASE k = 1  -> "stop_balancer"
      [] k = 2  -> "wait_for_locks"
      [] k = 3  -> "config_server.stop"
      [] k = 4  -> "config_server.mongodump"
      [] k = 5  -> "create_snapshots"
      [] k = 6  -> "lock_shards"
      [] k = 7  -> "unlock_shards"
      [] k = 8  -> "config_server.start"
      [] k = 9  -> "start_balancer"
      [] k = 10 -> "mount_snapshots"
      [] k = 11 -> "take_tar_backups"
      [] k = 12 -> "unmount_snapshots"
      [] OTHER  -> "remove_snapshots"

\* The function of the k-th run_step call of backup().
StepFn(k) ==
    CASE k = 1  -> "stop_balancer"
      [] k = 2  -> "wait_for_locks"
      [] k = 3  -> "config_server.stop"
      [] k = 4  -> "config_server.mongodump"
      [] k = 5  -> "lock_shards"
      [] k = 6  -> "create_snapshots"
      [] k = 7  -> "unlock_shards"
      [] k = 8  -> "config_server.start"
      [] k = 9  -> "start_balancer"
      [] k = 10 -> "mount_snapshots"
      [] k = 11 -> "take_tar_backups"
      [] k = 12 -> "unmount_snapshots"
      [] OTHER  -> "remove_snapshots"

\* Variant of Tries: stop_balancer is given three tries.
Tries_StopBalancerThrice(k) ==
    CASE k = 1 -> 3
      [] k = 4 -> 3
      [] k = 7 -> 2
      [] k = 8 -> 2
      [] k = 9 -> 4
      [] OTHER -> 1

\* The `tries` argument of the k-th run_step call (default 1).
Tries(k) ==
    CASE k = 1 -> 2
      [] k = 4 -> 3
      [] k = 7 -> 2
      [] k = 8 -> 2
      [] k = 9 -> 4
      [] OTHER -> 1

\* Variant of LogOp: unlock_shards is not pushed before lock_shards.
LogOp_NoUnlockPush(k) ==
    CASE k = 1  -> <<"insert", "start_balancer">>
      [] k = 3  -> <<"insert", "config_server.start">>
      [] k = 6  -> <<"insert", "remove_snapshots">>
      [] k = 7  -> <<"remove", "unlock_shards">>
      [] k = 8  -> <<"remove", "config_server.start">>
      [] k = 9  -> <<"remove", "start_balancer">>
      [] k = 10 -> <<"insert", "unmount_snapshots">>
      [] k = 12 -> <<"remove", "unmount_snapshots">>
      [] k = 13 -> <<"remove", "remove_snapshots">>
      [] OTHER  -> <<"none", "">>

\* Variant of LogOp: start_balancer is not removed before step 9.
LogOp_KeepStartBalancer(k) ==
    CASE k = 1  -> <<"insert", "start_balancer">>
      [] k = 3  -> <<"insert", "config_server.start">>
      [] k = 5  -> <<"insert", "unlock_shards">>
      [] k = 6  -> <<"insert", "remove_snapshots">>
      [] k = 7  -> <<"remove", "unlock_shards">>
      [] k = 8  -> <<"remove", "config_server.start">>
      [] k = 10 -> <<"insert", "unmount_snapshots">>
      [] k = 12 -> <<"remove", "unmount_snapshots">>
      [] k = 13 -> <<"remove", "remove_snapshots">>
      [] OTHER  -> <<"none", "">>

\* The rollback_steps statement that precedes the k-th run_step call.
LogOp(k) ==
    CASE k = 1  -> <<"insert", "start_balancer">>
      [] k = 3  -> <<"insert", "config_server.start">>
      [] k = 5  -> <<"insert", "unlock_shards">>
      [] k = 6  -> <<"insert", "remove_snapshots">>
      [] k = 7  -> <<"remove", "unlock_shards">>
      [] k = 8  -> <<"remove", "config_server.start">>
      [] k = 9  -> <<"remove", "start_balancer">>
      [] k = 10 -> <<"insert", "unmount_snapshots">>
      [] k = 12 -> <<"remove", "unmount_snapshots">>
      [] k = 13 -> <<"remove", "remove_snapshots">>
      [] OTHER  -> <<"none", "">>

\* Variant of Insert0: list.append(x).
Insert0_Append(l, x) == Append(l, x)

\* list.insert(0, x)
Insert0(l, x) == <<x>> \o l

\* The index of the first occurrence of x in l (0 when absent).
IndexOf(l, x) ==
    IF \E j \in 1..Len(l) : l[j] = x
    THEN CHOOSE j \in 1..Len(l) : l[j] = x /\ \A m \in 1..(j-1) : l[m] # x
    ELSE 0

\* Variant of Remove: list.pop(), which drops the last element.
Remove_Pop(l, x) == SubSeq(l, 1, Len(l) - 1)

\* list.remove(x): drops the first occurrence of x.
Remove(l, x) ==
    LET j == IndexOf(l, x)
    IN  IF j = 0 THEN l
        ELSE SubSeq(l, 1, j-1) \o SubSeq(l, j+1, Len(l))

ApplyLogOp(op, l) ==
    CASE op[1] = "insert" -> Insert0(l, op[2])
      [] op[1] = "remove" -> Remove(l, op[2])
      [] OTHER            -> l

(* ------------------------------------------------------------- run_step *)

\* Variant of IsLastTry: "if (i == tries)".
IsLastTry_OffByOne(t, n) == t = n

\* "if (i == tries-1)": the failed attempt was the last one.
IsLastTry(t, n) == t = n - 1

\* Variant of NextDrainIdx: an exception of a compensator leaves the loop.
NextDrainIdx_StopOnError(j, ok) ==
    IF ok THEN j + 1 ELSE Len(rollback_steps) + 1

\* The drain loop moves to the next compensator whatever the outcome of
\* the current one ("except ...: logging.info(...Ignoring)").
NextDrainIdx(j, ok) == j + 1

\* The function the control thread is calling: the step's function, or in
\* the drain the compensator the loop is at.
CurFn ==
    IF mode = "forward" THEN StepFn(step) ELSE rollback_steps[drainIdx]

\* A function is entered: bookkeeping of the call.
Invoke ==
    IF mode = "forward"
    THEN /\ attempts' = [attempts EXCEPT ![step] = @ + 1]
         /\ fwdTrace' = Append(fwdTrace, StepFn(step))
         /\ UNCHANGED drainTrace
    ELSE /\ drainTrace' = Append(drainTrace, CurFn)
         /\ UNCHANGED <<attempts, fwdTrace>>

\* run_step returned normally: backup() goes on to its next statement.
Proceed ==
    IF step = NumSteps
    THEN /\ pc' = "done"
         /\ UNCHANGED <<step, i>>
    ELSE /\ step' = step + 1
         /\ i' = 0
         /\ pc' = IF LogOp(step + 1)[1] = "none" THEN "call" ELSE "prep"

\* The called function returned (ok) or raised (~ok).
Return(ok) ==
    IF mode = "forward"
    THEN /\ UNCHANGED drainResult
         /\ IF ok
            THEN /\ succeeded' = [succeeded EXCEPT ![step] = TRUE]
                 /\ UNCHANGED <<mode, drainIdx>>
                 /\ Proceed
            ELSE /\ UNCHANGED <<succeeded, step, i>>
                 /\ IF IsLastTry(i, Tries(step))
                    THEN /\ mode' = "rollback"
                         /\ drainIdx' = 1
                         /\ pc' = IF Len(rollback_steps) = 0
                                  THEN "aborted" ELSE "call"
                    ELSE /\ pc' = "sleep"
                         /\ UNCHANGED <<mode, drainIdx>>
    ELSE /\ drainResult' = Append(drainResult, ok)
         /\ drainIdx' = NextDrainIdx(drainIdx, ok)
         /\ pc' = IF NextDrainIdx(drainIdx, ok) > Len(rollback_steps)
                  THEN "aborted" ELSE "call"
         /\ UNCHANGED <<mode, step, i, succeeded>>

\* No config.shards document has been looked at.
NoDoc == [host |-> "none", members |-> <<>>]

\* The fields and the observation variables as they are before any step of
\* backup() has run.
Blank ==
    /\ mode = "forward"
    /\ step = 1
    /\ i = 0
    /\ drainIdx = 0
    /\ rollback_steps = <<>>
    /\ stopped \in BOOLEAN
    /\ dumped = FALSE
    /\ is_locked = [s \in Shards |-> FALSE]
    /\ held \in BOOLEAN
    /\ retries = 0
    /\ lv = [h \in Hosts |-> FALSE]
    /\ snapshot_path = [h \in Hosts |-> FALSE]
    /\ mnt = [h \in Hosts |-> FALSE]
    /\ tar = [h \in Hosts |-> FALSE]
    /\ errors = <<>>
    /\ pending = {}
    /\ stopped0 = stopped
    /\ attempts = [k \in 1..NumSteps |-> 0]
    /\ succeeded = [k \in 1..NumSteps |-> FALSE]
    /\ delays = 0
    /\ pushed = <<>>
    /\ drainTrace = <<>>
    /\ drainResult = <<>>
    /\ fwdTrace = <<>>
    /\ snapUnlocked = FALSE
    /\ snap = [h \in Hosts |-> "absent"]
    /\ tried = [h \in Hosts |-> {}]
    /\ opFailed = FALSE
    /\ lastUnlock = [visited |-> {}, raised |-> FALSE]
    /\ shards = <<>>
    /\ lastDoc = NoDoc
    /\ noTarget = FALSE

\* The state after construction: BackupConfigServer.__init__ has seen the
\* config server running, backup() is at its first statement.
Init ==
    /\ pc = "prep"
    /\ running = TRUE
    /\ Blank

(* ------------------------------------------------ BackupCluster.__init__ *)

\* A member of a replSetGetStatus reply: state 1 is PRIMARY, 2 is SECONDARY,
\* 8 stands for every other state; health is 0 or 1.
MemberRecs == [state : {1, 2, 8}, health : {0, 1}, optimeDate : OptimeDates]

\* A config.shards document together with the status of its replica set:
\* the host field either holds a '/' (replica set) or does not.
ShardDocs ==
    {[host |-> "standalone", members |-> <<>>]} \cup
    {[host |-> "replset", members |-> m] :
        m \in UNION {[1..n -> MemberRecs] : n \in 1..MaxMembers}}

\* "member['state'] == 2 and int(member['health'])"
GoodSecondaries(rs) ==
    {j \in DOMAIN rs : rs[j].state = 2 /\ rs[j].health # 0}

\* Variant of Best: the sort without reverse=True, smallest optimeDate first.
Best_Ascending(rs, good) ==
    CHOOSE j \in good :
        \A m \in good : \/ rs[j].optimeDate < rs[m].optimeDate
                        \/ rs[m].optimeDate = rs[j].optimeDate /\ j <= m

\* "sorted(good_secondaries, key=optimeDate, reverse=True)[0]": the sort is
\* stable, so among equal optimeDate values the earlier member comes first.
Best(rs, good) ==
    CHOOSE j \in good :
        \A m \in good : \/ rs[m].optimeDate < rs[j].optimeDate
                        \/ rs[m].optimeDate = rs[j].optimeDate /\ j <= m

\* "[member for member in rs['members'] if member['state'] == 1]"
Masters(rs) == {j \in DOMAIN rs : rs[j].state = 1}

\* Variant of PickTarget: without a primary the first member is taken.
PickTarget_FirstMember(doc) ==
    IF doc.host = "standalone" THEN [raised |-> FALSE, name |-> 0]
    ELSE LET rs   == doc.members
             good == GoodSecondaries(rs)
         IN  IF good # {} THEN [raised |-> FALSE, name |-> Best(rs, good)]
             ELSE IF Masters(rs) # {}
             THEN [raised |-> FALSE,
                   name |-> CHOOSE j \in Masters(rs) :
                                \A m \in Masters(rs) : j <= m]
             ELSE [raised |-> FALSE, name |-> 1]

\* One iteration of get_shards' loop: the name appended for the document
\* (0: the host field itself, j: the name of member j), or the IndexError
\* of "[...][0]" on an empty list of masters.
PickTarget(doc) ==
    IF doc.host = "standalone" THEN [raised |-> FALSE, name |-> 0]
    ELSE LET rs   == doc.members
             good == GoodSecondaries(rs)
         IN  IF good # {} THEN [raised |-> FALSE, name |-> Best(rs, good)]
             ELSE IF Masters(rs) # {}
             THEN [raised |-> FALSE,
                   name |-> CHOOSE j \in Masters(rs) :
                                \A m \in Masters(rs) : j <= m]
             ELSE [raised |-> TRUE, name |-> 0]

\* The state run.py starts from: nothing is constructed yet, the config
\* server may be running or not.
InitCtor ==
    /\ pc = "init_hosts"
    /\ running \in BOOLEAN
    /\ Blank

\* "self.hosts = [BackupHost(...) for host in hosts]": each constructor runs
\* lvdisplay on the origin volume and raises when it is not found.
InitHosts ==
    /\ pc = "init_hosts"
    /\ \E found \in BOOLEAN :
          pc' = IF found THEN "init_shards" ELSE "init_failed"
    /\ UNCHANGED <<mode, step, i, drainIdx, rollback_steps, cluster, held,
                   retries, hostState, phaseState, stopped0, callHist,
                   retHist, delays, pushed, snapUnlocked, lastUnlock,
                   ctorState>>

\* The status shows no member with state 2 in health and none with state 1.
NoLockTarget(doc) ==
    /\ doc.host = "replset"
    /\ GoodSecondaries(doc.members) = {}
    /\ Masters(doc.members) = {}

\* get_shards, "for shard in ...find()" and replSetGetStatus: the document
\* and the status of its replica set are whatever the cluster returns.
GetShardsDoc ==
    /\ pc = "init_shards"
    /\ Len(shards) < NumShards
    /\ \E doc \in ShardDocs :
          /\ lastDoc' = doc
          /\ noTarget' = (noTarget \/ NoLockTarget(doc))
    /\ pc' = "init_pick"
    /\ UNCHANGED <<mode, step, i, drainIdx, rollback_steps, cluster, held,
                   retries, hostState, phaseState, stopped0, callHist,
                   retHist, delays, pushed, snapUnlocked, lastUnlock, shards>>

\* get_shards, the body of the loop: a name is appended, or the IndexError
\* leaves get_shards and the constructor.
GetShardsPick ==
    /\ pc = "init_pick"
    /\ IF PickTarget(lastDoc).raised
       THEN /\ pc' = "init_failed"
            /\ UNCHANGED <<shards, lastDoc>>
       ELSE /\ shards' = Append(shards, PickTarget(lastDoc).name)
            /\ pc' = "init_picked"
            /\ UNCHANGED lastDoc
    /\ UNCHANGED <<mode, step, i, drainIdx, rollback_steps, cluster, held,
                   retries, hostState, phaseState, stopped0, callHist,
                   retHist, delays, pushed, snapUnlocked, lastUnlock,
                   noTarget>>

\* get_shards, the end of the loop body: the document's "with" block is
\* left and the for statement goes to the next document.
GetShardsLoop ==
    /\ pc = "init_picked"
    /\ lastDoc' = NoDoc
    /\ pc' = "init_shards"
    /\ UNCHANGED <<mode, step, i, drainIdx, rollback_steps, cluster, held,
                   retries, hostState, phaseState, stopped0, callHist,
                   retHist, delays, pushed, snapUnlocked, lastUnlock, shards,
                   noTarget>>

\* get_shards returns; "self.shards = [BackupShard(host) for host in ...]".
GetShardsReturn ==
    /\ pc = "init_shards"
    /\ Len(shards) = NumShards
    /\ pc' = "init_config"
    /\ UNCHANGED <<mode, step, i, drainIdx, rollback_steps, cluster, held,
                   retries, hostState, phaseState, stopped0, callHist,
                   retHist, delays, pushed, snapUnlocked, lastUnlock,
                   ctorState>>

\* BackupConfigServer.__init__ raises unless is_running(); then
\* "self.rollback_steps = []" and run.py calls backup(). From here on the
\* k-th BackupShard object is shard k; the list of names is dropped.
InitConfigServer ==
    /\ pc = "init_config"
    /\ IF running
       THEN /\ pc' = "prep"
            /\ rollback_steps' = <<>>
            /\ shards' = <<>>
       ELSE /\ pc' = "init_failed"
            /\ UNCHANGED <<rollback_steps, shards>>
    /\ UNCHANGED <<mode, step, i, drainIdx, cluster, held, retries, hostState,
                   phaseState, stopped0, callHist, retHist, delays, pushed,
                   snapUnlocked, lastUnlock, lastDoc, noTarget>>

\* backup(): the rollback_steps.insert / .remove before a run_step call.
Prepare ==
    /\ pc = "prep"
    /\ rollback_steps' = ApplyLogOp(LogOp(step), rollback_steps)
    /\ pushed' = IF LogOp(step)[1] = "insert"
                 THEN Append(pushed, LogOp(step)[2]) ELSE pushed
    /\ pc' = "call"
    /\ UNCHANGED <<ctorState, lastUnlock>>
    /\ UNCHANGED <<mode, step, i, drainIdx, cluster, held, retries,
                   hostState, phaseState, stopped0, callHist, retHist,
                   delays, snapUnlocked>>

\* run_step: "time.sleep(2)" after a failed attempt, then the next
\* iteration of "for i in range(tries)".
Sleep ==
    /\ pc = "sleep"
    /\ delays' = delays + 1
    /\ IF i + 1 < Tries(step)
       THEN /\ i' = i + 1
            /\ pc' = "call"
            /\ UNCHANGED step
       ELSE Proceed
    /\ UNCHANGED <<ctorState, lastUnlock>>
    /\ UNCHANGED <<mode, drainIdx, rollback_steps, cluster, held, retries,
                   hostState, phaseState, stopped0, callHist, retHist,
                   pushed, snapUnlocked>>

(* ---------------------------------------------------------- BackupMongos *)

\* Variant of StartBalancerOk: start_balancer without the read-back check.
StartBalancerOk_NoReadBack(st) == TRUE

\* stop_balancer: no exception iff the read-back shows stopped.
StopBalancerOk(st) == st

\* start_balancer: no exception iff the read-back shows not stopped.
StartBalancerOk(st) == ~st

StopBalancer ==
    /\ pc = "call"
    /\ CurFn = "stop_balancer"
    /\ Invoke
    /\ \E applied \in BOOLEAN :
          /\ stopped' = IF applied THEN TRUE ELSE stopped
          /\ Return(StopBalancerOk(stopped'))
    /\ UNCHANGED <<ctorState, lastUnlock>>
    /\ UNCHANGED <<rollback_steps, running, dumped, is_locked, held, retries,
                   hostState, phaseState, stopped0, delays, pushed,
                   snapUnlocked>>

StartBalancer ==
    /\ pc = "call"
    /\ CurFn = "start_balancer"
    /\ Invoke
    /\ \E applied \in BOOLEAN :
          /\ stopped' = IF applied THEN FALSE ELSE stopped
          /\ Return(StartBalancerOk(stopped'))
    /\ UNCHANGED <<ctorState, lastUnlock>>
    /\ UNCHANGED <<rollback_steps, running, dumped, is_locked, held, retries,
                   hostState, phaseState, stopped0, delays, pushed,
                   snapUnlocked>>

\* wait_for_locks, entry: "retries = 0".
WaitForLocks ==
    /\ pc = "call"
    /\ CurFn = "wait_for_locks"
    /\ Invoke
    /\ retries' = 0
    /\ pc' = "wfl_loop"
    /\ UNCHANGED <<ctorState, lastUnlock>>
    /\ UNCHANGED <<mode, step, i, drainIdx, rollback_steps, cluster, held,
                   hostState, phaseState, stopped0, retHist, delays, pushed,
                   snapUnlocked>>

\* Variant of WaitCond: "retries <= 360".
WaitCond_OneMore(locks, r) == locks /\ r <= MaxRetries

\* The while condition "len(self.mongos.get_locks()) and retries < 360".
WaitCond(locks, r) == locks /\ r < MaxRetries

\* wait_for_locks, one evaluation of the while condition; when it holds the
\* body sleeps 5 s and increments retries, otherwise the loop is left.
WaitPoll ==
    /\ pc = "wfl_loop"
    /\ IF WaitCond(held, retries)
       THEN /\ retries' = retries + 1
            /\ pc' = "wfl_loop"
       ELSE /\ pc' = "wfl_check"
            /\ UNCHANGED retries
    /\ UNCHANGED <<ctorState, lastUnlock>>
    /\ UNCHANGED <<mode, step, i, drainIdx, rollback_steps, cluster, held,
                   hostState, phaseState, stopped0, callHist, retHist, delays,
                   pushed, snapUnlocked>>

\* wait_for_locks, the final "if len(self.mongos.get_locks()): raise".
WaitCheck ==
    /\ pc = "wfl_check"
    /\ retries' = 0
    /\ Return(~held)
    /\ UNCHANGED <<ctorState, lastUnlock>>
    /\ UNCHANGED <<rollback_steps, cluster, held, hostState, phaseState,
                   stopped0, callHist, delays, pushed, snapUnlocked>>

\* The cluster takes or releases distributed locks (config.locks, state 2)
\* while the coordinator is waiting.
LocksChange ==
    /\ pc \in {"wfl_loop", "wfl_check"}
    /\ held' = ~held
    /\ UNCHANGED <<ctorState, lastUnlock>>
    /\ UNCHANGED <<coord, rollback_steps, cluster, retries, hostState,
                   phaseState, stopped0, callHist, retHist, delays, pushed,
                   snapUnlocked>>

(* ---------------------------------------------------- BackupConfigServer *)

\* Variant of ConfigStartOk: start without the is_running() check.
ConfigStartOk_NoCheck(run) == TRUE

\* stop: no exception iff is_running() is false after the stop command.
ConfigStopOk(run) == ~run

\* start: no exception iff is_running() is true after the start command.
ConfigStartOk(run) == run

ConfigStop ==
    /\ pc = "call"
    /\ CurFn = "config_server.stop"
    /\ Invoke
    /\ \E applied \in BOOLEAN :
          /\ running' = IF applied THEN FALSE ELSE running
          /\ Return(ConfigStopOk(running'))
    /\ UNCHANGED <<ctorState, lastUnlock>>
    /\ UNCHANGED <<rollback_steps, stopped, dumped, is_locked, held, retries,
                   hostState, phaseState, stopped0, delays, pushed,
                   snapUnlocked>>

ConfigStart ==
    /\ pc = "call"
    /\ CurFn = "config_server.start"
    /\ Invoke
    /\ \E applied \in BOOLEAN :
          /\ running' = IF applied THEN TRUE ELSE running
          /\ Return(ConfigStartOk(running'))
    /\ UNCHANGED <<ctorState, lastUnlock>>
    /\ UNCHANGED <<rollback_steps, stopped, dumped, is_locked, held, retries,
                   hostState, phaseState, stopped0, delays, pushed,
                   snapUnlocked>>

\* mongodump: mkdir -p and mongodump; a non-zero exit code of either raises.
Mongodump ==
    /\ pc = "call"
    /\ CurFn = "config_server.mongodump"
    /\ Invoke
    /\ \E ret0 \in BOOLEAN :
          /\ dumped' = (dumped \/ ret0)
          /\ Return(ret0)
    /\ UNCHANGED <<ctorState, lastUnlock>>
    /\ UNCHANGED <<rollback_steps, stopped, running, is_locked, held, retries,
                   hostState, phaseState, stopped0, delays, pushed,
                   snapUnlocked>>

(* ----------------------------------------------------------- BackupShard *)

\* BackupShard.unlock raises "Cannot unlock shard <host>".
UnlockMessage(s) == <<"Cannot unlock shard", s>>

\* BackupShard.lock tests "if self.is_locked:" -- the bound method object,
\* not its result -- so the test passes whatever the member's lock state.
LockTest(locked) == TRUE

\* "exceptions += str(e)" for every shard of S, in order: the list is
\* extended by the elements of each message.
RECURSIVE Accumulate(_, _)
Accumulate(S, acc) ==
    IF S = {} THEN acc
    ELSE LET s == CHOOSE x \in S : \A y \in S : x <= y
         IN  Accumulate(S \ {s}, acc \o UnlockMessage(s))

\* Variant of NextShard: the first exception leaves the loop.
NextShard_StopOnError(k, raised) ==
    IF raised THEN NumShards + 1 ELSE k + 1

\* "for shard in self.shards: try: shard.unlock() except Exception ...":
\* the except clause is inside the loop body, so the loop goes on to the
\* next shard whether or not unlock raised.
NextShard(k, raised) == k + 1

\* The shards the loop calls unlock on, starting at the k-th; after[s] is
\* is_locked() of s as unlock reads it back.
RECURSIVE UnlockLoop(_, _)
UnlockLoop(k, after) ==
    IF k > NumShards THEN {}
    ELSE {k} \cup UnlockLoop(NextShard(k, after[k]), after)

\* unlock_shards: unlock every shard, collecting the exceptions; raise
\* afterwards "if len(exceptions)".
UnlockShards ==
    /\ pc = "call"
    /\ CurFn = "unlock_shards"
    /\ Invoke
    /\ \E eff \in SUBSET Shards :
          LET after == [s \in Shards |-> is_locked[s] /\ s \notin eff]
              visited == UnlockLoop(1, after)
          IN  /\ is_locked' = [s \in Shards |->
                                 IF s \in visited THEN after[s]
                                 ELSE is_locked[s]]
              /\ LET exceptions ==
                         Accumulate({s \in visited : is_locked'[s]}, <<>>)
                 IN  /\ lastUnlock' = [visited |-> visited,
                                       raised |-> Len(exceptions) > 0]
                     /\ Return(Len(exceptions) = 0)
    /\ UNCHANGED ctorState
    /\ UNCHANGED <<rollback_steps, stopped, running, dumped, held, retries,
                   hostState, phaseState, stopped0, delays, pushed,
                   snapUnlocked>>

(* ------------------------------------------------------ fan-out phases *)

FanFns == {"lock_shards", "create_snapshots", "mount_snapshots",
           "take_tar_backups", "unmount_snapshots", "remove_snapshots"}

\* Variant of Targets: remove_snapshots skips the hosts without a snapshot.
Targets_OnlyExisting(fn) ==
    IF fn = "lock_shards" THEN Shards
    ELSE IF fn = "remove_snapshots" THEN {h \in Hosts : lv[h]}
    ELSE Hosts

\* The objects a fan-out phase starts one thread for.
Targets(fn) == IF fn = "lock_shards" THEN Shards ELSE Hosts

\* errors = Queue.Queue(); one thread per target; thread.start() for all.
FanStart ==
    /\ pc = "call"
    /\ CurFn \in FanFns
    /\ Invoke
    /\ errors' = <<>>
    /\ opFailed' = FALSE
    /\ pending' = Targets(CurFn)
    /\ pc' = "join"
    /\ UNCHANGED <<ctorState, lastUnlock>>
    /\ UNCHANGED <<mode, step, i, drainIdx, rollback_steps, cluster, held,
                   retries, hostState, stopped0, retHist, delays, pushed,
                   snapUnlocked>>

\* thread.join() for all, then "if not errors.empty(): raise".
Join ==
    /\ pc = "join"
    /\ pending = {}
    /\ errors' = <<>>
    /\ Return(Len(errors) = 0)
    /\ UNCHANGED <<ctorState, lastUnlock>>
    /\ UNCHANGED <<rollback_steps, cluster, held, retries, hostState, pending,
                   opFailed, stopped0, callHist, delays, pushed,
                   snapUnlocked>>

\* BackupShard.lock in its thread: fsync(lock=True) takes effect or not
\* (or raises, which ends the thread silently).
LockWorker(s) ==
    /\ pc = "join"
    /\ CurFn = "lock_shards"
    /\ s \in pending
    /\ pending' = pending \ {s}
    /\ \E took \in BOOLEAN :
          /\ is_locked' = [is_locked EXCEPT ![s] = (@ \/ took)]
          /\ errors' = IF LockTest(is_locked'[s]) THEN errors
                       ELSE Append(errors, <<"Cannot lock shard", s>>)
          /\ opFailed' = (opFailed \/ ~is_locked'[s])
    /\ UNCHANGED <<ctorState, lastUnlock>>
    /\ UNCHANGED <<coord, rollback_steps, stopped, running, dumped, held,
                   retries, hostState, stopped0, callHist, retHist, delays,
                   pushed, snapUnlocked>>

\* BackupHost.create_snapshot in its thread. "ok": lvcreate returned 0 and
\* the lvdisplay pipeline printed the path. "nopath": lvcreate returned 0
\* and the pipeline printed nothing or check_output raised (the thread ends,
\* snapshot_path keeps ''). "fail": lvcreate returned non-zero.
CreateWorker(h) ==
    /\ pc = "join"
    /\ CurFn = "create_snapshots"
    /\ h \in pending
    /\ pending' = pending \ {h}
    /\ snapUnlocked' = (snapUnlocked \/ \E s \in Shards : ~is_locked[s])
    /\ \E r \in {"ok", "nopath", "fail"} :
          /\ r # "fail" => ~lv[h]
          /\ lv' = [lv EXCEPT ![h] = (@ \/ r # "fail")]
          /\ snapshot_path' = [snapshot_path EXCEPT ![h] = (@ \/ r = "ok")]
          /\ errors' = IF r = "fail"
                       THEN Append(errors, <<"Cannot create snapshot", h>>)
                       ELSE errors
          /\ snap' = [snap EXCEPT ![h] = IF r # "fail" THEN "created" ELSE @]
          /\ opFailed' = (opFailed \/ r = "fail")
    /\ tried' = [tried EXCEPT ![h] = @ \cup {"create"}]
    /\ UNCHANGED <<ctorState, lastUnlock>>
    /\ UNCHANGED <<coord, rollback_steps, cluster, held, retries, mnt, tar,
                   stopped0, callHist, retHist, delays, pushed>>

\* mount_snapshot's first branch calls logging.err(), which the logging
\* module does not have: AttributeError ends the thread before errors.put.
LoggingErrRaises == TRUE

\* BackupHost.mount_snapshot in its thread.
MountWorker(h) ==
    /\ pc = "join"
    /\ CurFn = "mount_snapshots"
    /\ h \in pending
    /\ pending' = pending \ {h}
    /\ IF ~snapshot_path[h]
       THEN /\ errors' = IF LoggingErrRaises THEN errors
                         ELSE Append(errors, <<"Snapshot was not created", h>>)
            /\ opFailed' = TRUE
            /\ UNCHANGED <<mnt, snap>>
       ELSE \E ret0 \in BOOLEAN :
               /\ ret0 => (lv[h] /\ ~mnt[h])
               /\ mnt' = [mnt EXCEPT ![h] = (@ \/ ret0)]
               /\ errors' = IF ret0 THEN errors
                            ELSE Append(errors, <<"Cannot mount snapshot", h>>)
               /\ snap' = [snap EXCEPT ![h] = IF ret0 THEN "mounted" ELSE @]
               /\ opFailed' = (opFailed \/ ~ret0)
    /\ tried' = [tried EXCEPT ![h] = @ \cup {"mount"}]
    /\ UNCHANGED <<ctorState, lastUnlock>>
    /\ UNCHANGED <<coord, rollback_steps, cluster, held, retries, lv,
                   snapshot_path, tar, stopped0, callHist, retHist, delays,
                   pushed, snapUnlocked>>

\* BackupHost.take_tar_backup in its thread.
TarWorker(h) ==
    /\ pc = "join"
    /\ CurFn = "take_tar_backups"
    /\ h \in pending
    /\ pending' = pending \ {h}
    /\ \E ret0 \in BOOLEAN :
          /\ tar' = [tar EXCEPT ![h] = (@ \/ ret0)]
          /\ errors' = IF ret0 THEN errors
                       ELSE Append(errors, <<"Cannot complete tar", h>>)
          /\ snap' = [snap EXCEPT ![h] = IF ret0 /\ @ = "mounted"
                                         THEN "archived" ELSE @]
          /\ opFailed' = (opFailed \/ ~ret0)
    /\ tried' = [tried EXCEPT ![h] = @ \cup {"tar"}]
    /\ UNCHANGED <<ctorState, lastUnlock>>
    /\ UNCHANGED <<coord, rollback_steps, cluster, held, retries, lv,
                   snapshot_path, mnt, stopped0, callHist, retHist, delays,
                   pushed, snapUnlocked>>

\* BackupHost.unmount_snapshot in its thread: umount -f returns 0 only when
\* something is mounted at mount_point.
UnmountWorker(h) ==
    /\ pc = "join"
    /\ CurFn = "unmount_snapshots"
    /\ h \in pending
    /\ pending' = pending \ {h}
    /\ \E ret0 \in BOOLEAN :
          /\ ret0 => mnt[h]
          /\ mnt' = [mnt EXCEPT ![h] = (@ /\ ~ret0)]
          /\ errors' = IF ret0 THEN errors
                       ELSE Append(errors, <<"Cannot unmount snapshot", h>>)
          /\ snap' = [snap EXCEPT ![h] = IF ret0 THEN "unmounted" ELSE @]
          /\ opFailed' = (opFailed \/ ~ret0)
    /\ tried' = [tried EXCEPT ![h] = @ \cup {"unmount"}]
    /\ UNCHANGED <<ctorState, lastUnlock>>
    /\ UNCHANGED <<coord, rollback_steps, cluster, held, retries, lv,
                   snapshot_path, tar, stopped0, callHist, retHist, delays,
                   pushed, snapUnlocked>>

\* BackupHost.remove_snapshot in its thread: lvremove -f returns 0 only when
\* the snapshot volume exists and is not mounted.
RemoveWorker(h) ==
    /\ pc = "join"
    /\ CurFn = "remove_snapshots"
    /\ h \in pending
    /\ pending' = pending \ {h}
    /\ \E ret0 \in BOOLEAN :
          /\ ret0 => (lv[h] /\ ~mnt[h])
          /\ lv' = [lv EXCEPT ![h] = (@ /\ ~ret0)]
          /\ errors' = IF ret0 THEN errors
                       ELSE Append(errors, <<"Cannot remove snapshot", h>>)
          /\ snap' = [snap EXCEPT ![h] = IF ret0 THEN "removed" ELSE @]
          /\ opFailed' = (opFailed \/ ~ret0)
    /\ tried' = [tried EXCEPT ![h] = @ \cup {"remove"}]
    /\ UNCHANGED <<ctorState, lastUnlock>>
    /\ UNCHANGED <<coord, rollback_steps, cluster, held, retries,
                   snapshot_path, mnt, tar, stopped0, callHist, retHist,
                   delays, pushed, snapUnlocked>>

Next ==
    \/ Prepare
    \/ Sleep
    \/ StopBalancer
    \/ StartBalancer
    \/ WaitForLocks
    \/ WaitPoll
    \/ WaitCheck
    \/ LocksChange
    \/ ConfigStop
    \/ ConfigStart
    \/ Mongodump
    \/ UnlockShards
    \/ FanStart
    \/ Join
    \/ \E s \in Shards : LockWorker(s)
    \/ \E h \in Hosts : CreateWorker(h)
    \/ \E h \in Hosts : MountWorker(h)
    \/ \E h \in Hosts : TarWorker(h)
    \/ \E h \in Hosts : UnmountWorker(h)
    \/ \E h \in Hosts : RemoveWorker(h)

Spec == Init /\ [][Next]_vars

\* A step of the program itself: of the control thread or of a worker
\* thread, that is every action but the cluster's own LocksChange.
ProgramStep ==
    \/ Prepare
    \/ Sleep
    \/ StopBalancer
    \/ StartBalancer
    \/ WaitForLocks
    \/ WaitPoll
    \/ WaitCheck
    \/ ConfigStop
    \/ ConfigStart
    \/ Mongodump
    \/ UnlockShards
    \/ FanStart
    \/ Join
    \/ \E s \in Shards : LockWorker(s)
    \/ \E h \in Hosts : CreateWorker(h)
    \/ \E h \in Hosts : MountWorker(h)
    \/ \E h \in Hosts : TarWorker(h)
    \/ \E h \in Hosts : UnmountWorker(h)
    \/ \E h \in Hosts : RemoveWorker(h)

\* The threads keep being scheduled and every call they make returns: the
\* ssh commands run under "timeout", the driver calls under a network
\* timeout, the sleeps end. Nothing is assumed of the cluster's locks.
SpecLive == Init /\ [][Next]_vars /\ WF_vars(ProgramStep)

\* run.py from its first statement: the constructor, then backup().
NextCtor ==
    \/ InitHosts
    \/ GetShardsDoc
    \/ GetShardsPick
    \/ GetShardsLoop
    \/ GetShardsReturn
    \/ InitConfigServer
    \/ Next

SpecCtor == InitCtor /\ [][NextCtor]_vars

(* ------------------------------------------------------------ properties *)

Terminated == pc \in {"done", "aborted"}

\* Number of occurrences of x in the sequence l.
Count(l, x) == Cardinality({j \in 1..Len(l) : l[j] = x})

Reverse(l) == [j \in 1..Len(l) |-> l[Len(l) + 1 - j]]

\* The drain called compensator c and it did not raise, or did not call it.
DrainDidNotFail(c) ==
    \A j \in 1..Len(drainResult) : drainTrace[j] = c => drainResult[j]

AllUnlocked == \A s \in Shards : ~is_locked[s]

C2_SnapshotsOnlyUnderLock ==
    pc = "done" => ~snapUnlocked

Compensators == {"start_balancer", "config_server.start", "unlock_shards",
                 "remove_snapshots", "unmount_snapshots"}

ForwardStepOf(c) ==
    CASE c = "start_balancer"      -> 1
      [] c = "config_server.start" -> 3
      [] c = "unlock_shards"       -> 5
      [] c = "remove_snapshots"    -> 6
      [] OTHER                     -> 10

RemovalStepOf(c) ==
    CASE c = "start_balancer"      -> 9
      [] c = "config_server.start" -> 8
      [] c = "unlock_shards"       -> 7
      [] c = "remove_snapshots"    -> 13
      [] OTHER                     -> 12

\* The forward step was called and its last call raised.
ForwardFailed(k) == attempts[k] > 0 /\ ~succeeded[k]

\* C5 (as stated): in an aborted run a compensator whose forward step
\* succeeded was invoked exactly once, and one whose forward step failed was
\* invoked zero times.
C5_CompensatedIffForwardSucceeded ==
    pc = "aborted" =>
        \A c \in Compensators :
            /\ succeeded[ForwardStepOf(c)] => Count(drainTrace, c) = 1
            /\ ForwardFailed(ForwardStepOf(c)) => Count(drainTrace, c) = 0

\* C5 (amended): in an aborted run the drain invokes a compensator exactly
\* once if its forward step was attempted (whether that step succeeded or
\* failed: the compensator is pushed before the step) and the step before
\* which it is removed from the log was not reached; otherwise the drain
\* invokes it zero times.
C5_CompensatedIffPushedAndNotRemoved ==
    pc = "aborted" =>
        \A c \in Compensators :
            Count(drainTrace, c) =
                IF attempts[ForwardStepOf(c)] > 0
                   /\ attempts[RemovalStepOf(c)] = 0
                THEN 1 ELSE 0

\* C5 witness: stop_balancer failed on both tries and the drain invoked its
\* compensator start_balancer.
C5_Witness ==
    /\ pc = "aborted"
    /\ ForwardFailed(1)
    /\ attempts[1] = 2
    /\ drainTrace = <<"start_balancer">>

IsIn(l, x) == \E j \in 1..Len(l) : l[j] = x

\* C6: a compensator is in the rollback log in the state from which its
\* forward step is first called, and when a run ends aborted the drain has
\* called the compensators of the log in the reverse of their push order.
C6_PushedBeforeAndDrainedLifo ==
    [][ /\ \A c \in Compensators :
             ( attempts[ForwardStepOf(c)] = 0
               /\ attempts'[ForwardStepOf(c)] = 1 )
             => IsIn(rollback_steps, c)
        /\ pc' = "aborted" =>
             drainTrace' =
                 Reverse(SelectSeq(pushed',
                                   LAMBDA c : IsIn(rollback_steps', c)))
      ]_vars

\* C6 witness: a drain over a log of four compensators has finished.
C6_Witness ==
    /\ pc = "aborted"
    /\ Len(drainTrace) = 4
    /\ pushed = <<"start_balancer", "config_server.start", "unlock_shards",
                  "remove_snapshots">>

\* C7: the drain never sleeps, retries or goes back to forward steps; it
\* calls the compensators of the log one by one in log order, and when the
\* run ends aborted every compensator of the log was called exactly once
\* whatever the outcomes; until then the drain always has a next step.
C7_DrainSurvivesFailures ==
    /\ mode = "rollback" =>
         /\ pc \in {"call", "join", "aborted"}
         /\ Len(drainTrace) <= Len(rollback_steps)
         /\ drainTrace = SubSeq(rollback_steps, 1, Len(drainTrace))
    /\ pc = "aborted" =>
         /\ drainTrace = rollback_steps
         /\ Len(drainResult) = Len(rollback_steps)
         /\ \A c \in Compensators :
              Count(drainTrace, c) = Count(rollback_steps, c)
              /\ Count(drainTrace, c) <= 1
    /\ pc = "done" => drainTrace = <<>>
    /\ (mode = "rollback" /\ pc # "aborted") => ENABLED Next

\* C7 witness: a compensator raised in the drain and a later compensator
\* was still called.
C7_Witness ==
    /\ pc = "aborted"
    /\ \E j \in 1..Len(drainResult) : ~drainResult[j] /\ j < Len(drainTrace)

SB == "start_balancer"

CS == "config_server.start"

UL == "unlock_shards"

RS == "remove_snapshots"

UM == "unmount_snapshots"

\* The rollback log the step table prescribes while step k runs.
TableLog(k) ==
    CASE k \in {1, 2}   -> <<SB>>
      [] k \in {3, 4}   -> <<CS, SB>>
      [] k = 5          -> <<UL, CS, SB>>
      [] k = 6          -> <<RS, UL, CS, SB>>
      [] k = 7          -> <<RS, CS, SB>>
      [] k = 8          -> <<RS, SB>>
      [] k = 9          -> <<RS>>
      [] k \in {10, 11} -> <<UM, RS>>
      [] k = 12         -> <<RS>>
      [] OTHER          -> <<>>

\* C8: the rollback log follows the step table: before the log statement of
\* step k it is the table's log of step k-1, from then on (while the step
\* runs, is retried, or its failure is drained) the table's log of step k;
\* so it never holds a compensator twice, is empty when the run ends in
\* done and holds only start_balancer when wait_for_locks failed.
C8_LogFollowsStepTable ==
    /\ rollback_steps =
          IF pc = "prep"
          THEN (IF step = 1 THEN <<>> ELSE TableLog(step - 1))
          ELSE TableLog(step)
    /\ \A c \in Compensators : Count(rollback_steps, c) <= 1
    /\ pc = "done" => rollback_steps = <<>>
    /\ (pc = "aborted" /\ step = 2) => rollback_steps = <<SB>>

\* C8 witness: a run went through every log statement and ended in done.
C8_Witness ==
    /\ pc = "done"
    /\ pushed = <<SB, CS, UL, RS, UM>>
    /\ rollback_steps = <<>>

\* The retry budgets of steps 1..13.
Budget == <<2, 1, 1, 3, 1, 1, 2, 2, 4, 1, 1, 1, 1>>

\* A forward call has been entered and has not returned yet.
InProgress(k) ==
    mode = "forward" /\ k = step /\ pc \in {"join", "wfl_loop", "wfl_check"}

\* Number of calls of step k that raised.
Failures(k) ==
    attempts[k] - (IF succeeded[k] THEN 1 ELSE 0)
                - (IF InProgress(k) THEN 1 ELSE 0)

RECURSIVE SumFailures(_)
SumFailures(k) == IF k = 0 THEN 0 ELSE Failures(k) + SumFailures(k - 1)

\* C9: a step is called at most its budget and never again after it
\* succeeded; run_step sleeps once after each failed call that is not the
\* last of the budget (so the number of delays is the number of failed
\* calls, less the one that started the drain); the drain starts only from
\* a failed last call, and nothing sleeps or is called forward from then on.
C9_RetryDriver ==
    /\ [] /\ \A k \in 1..13 : attempts[k] <= Budget[k]
          /\ pc = "sleep" => attempts[step] < Budget[step]
          /\ delays + (IF pc = "sleep" THEN 1 ELSE 0)
                = SumFailures(13) - (IF mode = "rollback" THEN 1 ELSE 0)
          /\ mode = "rollback" =>
                (Failures(step) = Budget[step] /\ pc # "sleep")
    /\ [][ /\ \A k \in 1..13 : succeeded[k] => attempts'[k] = attempts[k]
           /\ mode = "rollback" => (mode' = "rollback" /\ delays' = delays)
           /\ (mode = "forward" /\ mode' = "rollback") => delays' = delays
         ]_vars

\* C9 witness: stop_balancer failed once and then succeeded, exactly one
\* delay was taken, and the run ended in done.
C9_Witness ==
    /\ pc = "done"
    /\ attempts[1] = 2
    /\ delays = 1

\* The forward steps in their order.
Order == <<"stop_balancer", "wait_for_locks", "config_server.stop",
           "config_server.mongodump", "lock_shards", "create_snapshots",
           "unlock_shards", "config_server.start", "start_balancer",
           "mount_snapshots", "take_tar_backups", "unmount_snapshots",
           "remove_snapshots">>

\* C10: the forward calls are made in the order of the step list (a step's
\* retries are adjacent); step k+1 is called only after step k succeeded;
\* and once the drain has started no forward step is called any more.
C10_StrictStepOrder ==
    /\ [] /\ \A k \in 1..12 : attempts[k + 1] > 0 => succeeded[k]
          /\ \A j \in 1..Len(fwdTrace) :
                \E k \in 1..13 :
                   /\ fwdTrace[j] = Order[k]
                   /\ j > 1 => fwdTrace[j - 1] \in {Order[k]} \cup
                                  (IF k > 1 THEN {Order[k - 1]} ELSE {})
          /\ Len(fwdTrace) > 0 => fwdTrace[1] = Order[1]
    /\ [][ mode = "rollback" =>
              (attempts' = attempts /\ fwdTrace' = fwdTrace) ]_vars

\* C10 witness: ten steps succeeded one after the other, the eleventh
\* failed, and the drain ended the run.
C10_Witness ==
    /\ pc = "aborted"
    /\ step = 11
    /\ \A k \in 1..10 : succeeded[k]
    /\ \A k \in 12..13 : attempts[k] = 0

(* ------------------------------------------------------------------- C11 *)

\* C11: under fair scheduling of the program's threads, and whatever the
\* cluster's distributed locks do, every run of backup() reaches done or
\* aborted and stays there; it is done exactly when each of the thirteen
\* steps succeeded, none called more often than its budget allows, and it
\* is aborted only in rollback mode after the drain has called every
\* entry of the rollback log.
C11_TerminatesDoneOrAborted ==
    /\ <>Terminated
    /\ [](Terminated => ~ENABLED Next)
    /\ [](\A k \in 1..NumSteps : attempts[k] <= Budget[k])
    /\ [](pc = "done" =>
            /\ \A k \in 1..NumSteps : succeeded[k]
            /\ mode = "forward"
            /\ drainTrace = <<>>)
    /\ [](pc = "aborted" =>
            /\ \E k \in 1..NumSteps : ~succeeded[k]
            /\ ForwardFailed(step)
            /\ attempts[step] = Budget[step]
            /\ mode = "rollback"
            /\ drainTrace = rollback_steps
            /\ Len(drainResult) = Len(drainTrace))

\* A run that ended aborted because the cluster's locks were still held when
\* wait_for_locks gave up, with its one compensator drained.
C11_Witness ==
    /\ pc = "aborted"
    /\ StepFn(step) = "wait_for_locks"
    /\ held
    /\ drainTrace = <<"start_balancer">>

(* ------------------------------------------------------------------- C12 *)

\* The pc values of BackupCluster.__init__.
Constructing ==
    {"init_hosts", "init_shards", "init_pick", "init_picked", "init_config"}

\* Nothing of the cluster has been written and no step has been called.
Untouched ==
    /\ \A k \in 1..NumSteps : attempts[k] = 0
    /\ fwdTrace = <<>>
    /\ drainTrace = <<>>
    /\ stopped = stopped0
    /\ AllUnlocked
    /\ \A h \in Hosts : snap[h] = "absent" /\ tried[h] = {} /\ ~lv[h]
    /\ rollback_steps = <<>>
    /\ pushed = <<>>

\* C12: get_shards appends exactly one lock target per shard document, so
\* the list handed to the constructor has one target per shard; a replica
\* set with no secondary in health and no primary makes the constructor
\* fail, and during construction and after its failure nothing has been
\* done to the cluster: no step was called, the balancer flag is as before,
\* no shard is locked, no snapshot exists and the rollback log is empty.
C12_NoTargetAbortsBeforeMutation ==
    /\ noTarget => pc \in {"init_pick", "init_failed"}
    /\ pc = "init_failed" /\ lastDoc # NoDoc => noTarget
    /\ pc \in {"init_shards", "init_pick", "init_picked"} =>
          Len(shards) <= NumShards
    /\ pc = "init_config" => Len(shards) = NumShards
    /\ pc \in Constructing \cup {"init_failed"} => Untouched
    /\ pc \notin Constructing \cup {"init_failed"} => shards = <<>>

\* The second shard is a replica set without a lock target: the constructor
\* has failed after one target was selected.
C12_Witness ==
    /\ pc = "init_failed"
    /\ noTarget
    /\ lastDoc.host = "replset"
    /\ Len(shards) = 1
    /\ running

(* ------------------------------------------------------------------- C13 *)

\* create_snapshot ran on host h and lvcreate returned non-zero.
CreateFailedOn(h) == "create" \in tried[h] /\ snap[h] = "absent"

\* C13: once create_snapshot has failed on some host, step 6 does not
\* succeed, no later step is called and no mount, tar or unmount is attempted
\* on any host; when the run has ended it is aborted, the drain has called
\* remove_snapshots, unlock_shards, config_server.start and start_balancer
\* in that order, remove_snapshot was attempted on every host and unlock on
\* every shard.
C13_CreateFailureRollsBack ==
    (\E h \in Hosts : CreateFailedOn(h)) =>
        /\ ~succeeded[6]
        /\ step = 6
        /\ pc # "done"
        /\ \A k \in 7..NumSteps : attempts[k] = 0
        /\ \A h \in Hosts : tried[h] \cap {"mount", "tar", "unmount"} = {}
        /\ pc = "join" /\ mode = "forward" /\ pending = {} => Len(errors) > 0
        /\ pc = "aborted" =>
              /\ drainTrace = <<"remove_snapshots", "unlock_shards",
                                "config_server.start", "start_balancer">>
              /\ \A h \in Hosts : "remove" \in tried[h]
              /\ lastUnlock.visited = Shards

\* An aborted run in which creation failed on one host and succeeded on
\* another, whose snapshot the rollback removed.
C13_Witness ==
    /\ pc = "aborted"
    /\ \E h \in Hosts : CreateFailedOn(h)
    /\ \E h \in Hosts : snap[h] = "removed"

(* ------------------------------------------------------------------- C14 *)

\* Steps 7, 8 and 9 (unlock_shards, config_server.start, start_balancer)
\* have succeeded.
ReleasedForward == succeeded[7] /\ succeeded[8] /\ succeeded[9]

\* The drain has called none of the three compensators of steps 1, 3, 5.
NoSecondRelease ==
    /\ Count(drainTrace, "unlock_shards") = 0
    /\ Count(drainTrace, "config_server.start") = 0
    /\ Count(drainTrace, "start_balancer") = 0

\* C14 (as stated): once steps 7-9 have succeeded, a later abort does not
\* invoke unlock_shards, config_server.start or start_balancer again; the
\* rollback runs exactly unmount_snapshots followed by remove_snapshots, and
\* at termination the shards are unlocked, the config server is running and
\* the balancer is enabled.
C14_LateAbortUnmountsThenRemoves ==
    ReleasedForward =>
        /\ NoSecondRelease
        /\ pc = "aborted" =>
              /\ drainTrace = <<"unmount_snapshots", "remove_snapshots">>
              /\ AllUnlocked /\ running /\ ~stopped

\* C14 (amended): once steps 7-9 have succeeded the drain never calls
\* unlock_shards, config_server.start or start_balancer; an abort at step
\* 10 or 11 drains unmount_snapshots then remove_snapshots, an abort at
\* step 12 drains remove_snapshots alone and an abort at step 13 drains
\* nothing; in each case the shards are unlocked, the config server is
\* running and the balancer is enabled at termination.
C14_LateAbortDrainsWhatIsLeft ==
    ReleasedForward =>
        /\ NoSecondRelease
        /\ pc = "aborted" =>
              /\ step \in 10..13
              /\ drainTrace =
                    CASE step \in {10, 11} ->
                             <<"unmount_snapshots", "remove_snapshots">>
                      [] step = 12 -> <<"remove_snapshots">>
                      [] OTHER -> <<>>
              /\ AllUnlocked /\ running /\ ~stopped

\* The tar of step 11 failed after steps 7-9 had succeeded, and the drain
\* has run.
C14_Witness ==
    /\ pc = "aborted"
    /\ ReleasedForward
    /\ step = 11
    /\ drainTrace = <<"unmount_snapshots", "remove_snapshots">>

(* ------------------------------------------------------------------- C15 *)

\* C15 (as stated): in a fan-out phase only threads of the phase's targets
\* are running, the error queue holds only errors put by threads of this
\* phase that have finished, and when every thread has finished -- the
\* point at which the phase returns or raises -- the queue is non-empty
\* exactly when the operation of at least one target failed.
C15_PhaseFailsIffSomeTargetFailed ==
    pc = "join" =>
        /\ pending \subseteq Targets(CurFn)
        /\ Len(errors) <= Cardinality(Targets(CurFn) \ pending)
        /\ pending = {} => (Len(errors) > 0 <=> opFailed)

(* ------------------------------------------------------------------- C16 *)

\* unlock_shards has been called, as step 7 or by the drain.
UnlockCalled == attempts[7] > 0 \/ Count(drainTrace, "unlock_shards") > 0

\* C16: after every call of unlock_shards, unlock was attempted on every
\* shard, and the call raised exactly when some member is still locked; a
\* call that raised is a failed try of step 7 or a failed compensator.
C16_UnlockVisitsEveryShard ==
    UnlockCalled =>
        /\ lastUnlock.visited = Shards
        /\ lastUnlock.raised <=> (\E s \in Shards : is_locked[s])
        /\ succeeded[7] => ~lastUnlock.raised
        /\ \A j \in 1..Len(drainResult) :
              drainTrace[j] = "unlock_shards" =>
                  (drainResult[j] <=> ~lastUnlock.raised)

\* unlock_shards raised because the first shard stayed locked, and the
\* shards after it were visited all the same and are unlocked.
C16_Witness ==
    /\ UnlockCalled
    /\ lastUnlock.raised
    /\ lastUnlock.visited = Shards
    /\ is_locked[1]
    /\ \A s \in Shards \ {1} : ~is_locked[s]
    /\ snapUnlocked = FALSE
    /\ Len(drainTrace) > 0

(* ------------------------------------------------------------------- C17 *)

\* C17 (as stated): when every lock thread has finished and some chosen
\* member is not locked, the error queue holds a lock error, so lock_shards
\* raises; hence whenever step 5 has succeeded and step 6 has not started
\* yet, every chosen member is locked.
C17_UnlockedMemberFailsLockPhase ==
    /\ (/\ pc = "join"
        /\ CurFn = "lock_shards"
        /\ pending = {}
        /\ \E s \in Shards : ~is_locked[s]) => Len(errors) > 0
    /\ succeeded[5] /\ attempts[6] = 0 => \A s \in Shards : is_locked[s]

(* ------------------------------------------------------------------- C18 *)

\* C18 (as stated): a host without a recorded snapshot path is never
\* mounted; when every mount thread has finished and some host has no
\* recorded path, the error queue holds an error, so mount_snapshots raises;
\* hence tar is never attempted while some host has no recorded path.
C18_MissingPathFailsMountPhase ==
    /\ \A h \in Hosts : ~snapshot_path[h] => ~mnt[h]
    /\ (/\ pc = "join"
        /\ CurFn = "mount_snapshots"
        /\ pending = {}
        /\ \E h \in Hosts : ~snapshot_path[h]) => Len(errors) > 0
    /\ attempts[11] > 0 => \A h \in Hosts : snapshot_path[h]

(* ------------------------------------------------------------------- C19 *)

\* This step is the thread of phase fn running its operation on host h.
Runs(fn, h) ==
    /\ pc = "join"
    /\ CurFn = fn
    /\ h \in pending
    /\ h \notin pending'

WaitEnds == pc = "wfl_check" /\ pc' # "wfl_check"

\* wait_for_locks sleeps in this step.
WaitSleeps == pc = "wfl_loop" /\ retries' = retries + 1

\* C20 (as stated): wait_for_locks never sleeps more than 360 times and
\* sleeps only after a poll that found a lock; when it leaves the loop with
\* attempts to spare, a poll having found no lock, it returns successfully;
\* when the lock was released only after the 360 attempts were used up, it
\* raises.
C20_FailsAfter360Attempts ==
    /\ [](retries <= MaxRetries)
    /\ [][/\ WaitSleeps => held
          /\ WaitEnds /\ retries < MaxRetries => succeeded'[2]
          /\ WaitEnds /\ retries = MaxRetries => ~succeeded'[2]]_vars

\* C20 (amended): wait_for_locks never sleeps more than 360 times and
\* sleeps only after a poll that found a lock; it leaves the loop at the
\* first poll that finds no lock or after the 360th sleep, then reads the
\* locks once more, and it returns successfully exactly when that last
\* read finds no lock held, otherwise it raises and the run rolls back.
C20_LastReadDecides ==
    /\ [](retries <= MaxRetries)
    /\ [][/\ WaitSleeps => held /\ retries < MaxRetries /\ pc' = "wfl_loop"
          /\ pc = "wfl_loop" /\ pc' = "wfl_check" =>
                 (~held \/ retries = MaxRetries) /\ retries' = retries
          /\ WaitEnds => /\ succeeded'[2] <=> ~held
                         /\ ~held => step' = 3 /\ mode' = "forward"
                         /\ held => mode' = "rollback"]_vars

\* The lock was held at every poll of the loop and released after the
\* 360th sleep: the last read is about to find no lock.
C20_Witness ==
    /\ pc = "wfl_check"
    /\ retries = MaxRetries
    /\ ~held

(* ------------------------------------------------------------------- C21 *)

\* The name get_shards appended last.
Chosen == shards[Len(shards)]

\* The members of the document in hand that are secondary and in health.
HealthySecondaries ==
    {j \in DOMAIN lastDoc.members :
        lastDoc.members[j].state = 2 /\ lastDoc.members[j].health = 1}

\* The members of the document in hand that are in the primary state.
Primaries == {j \in DOMAIN lastDoc.members : lastDoc.members[j].state = 1}

\* The members of the document in hand that are in health.
HealthyMembers ==
    {j \in DOMAIN lastDoc.members : lastDoc.members[j].health = 1}

\* What both readings of the claim share: one name per document; the host
\* itself for a standalone shard; for a replica set a secondary in health
\* of largest optime if there is one, otherwise a primary.
ChosenByRule ==
    /\ Len(shards) >= 1
    /\ lastDoc.host = "standalone" => Chosen = 0
    /\ lastDoc.host = "replset" =>
          /\ Chosen \in DOMAIN lastDoc.members
          /\ IF HealthySecondaries # {}
             THEN /\ Chosen \in HealthySecondaries
                  /\ \A j \in HealthySecondaries :
                        lastDoc.members[j].optimeDate
                            <= lastDoc.members[Chosen].optimeDate
             ELSE Chosen \in Primaries

\* C21 (as stated): get_shards appends one endpoint per shard document,
\* chosen by the rule above, and for a replica set with zero members in
\* health, or with neither a secondary in health nor a primary, it fails
\* instead of returning a member.
C21_FailsWithoutHealthyMember ==
    /\ pc = "init_picked" =>
          /\ ChosenByRule
          /\ lastDoc.host = "replset" =>
                /\ HealthyMembers # {}
                /\ HealthySecondaries # {} \/ Primaries # {}
    /\ pc = "init_failed" /\ lastDoc # NoDoc =>
          /\ lastDoc.host = "replset"
          /\ HealthyMembers = {} \/ (HealthySecondaries = {} /\ Primaries = {})
    /\ pc = "init_config" => Len(shards) = NumShards /\ lastDoc = NoDoc

\* C21 (amended): get_shards appends one endpoint per shard document,
\* chosen by the rule above, the earliest member among equals; the primary
\* is taken whatever its health; it fails exactly for a replica set with
\* neither a secondary in health nor a member in the primary state.
C21_FailsWithoutSecondaryAndPrimary ==
    /\ pc = "init_picked" =>
          /\ ChosenByRule
          /\ lastDoc.host = "replset" =>
                /\ HealthySecondaries # {} \/ Primaries # {}
                /\ \A j \in 1..(Chosen - 1) :
                      IF HealthySecondaries # {}
                      THEN j \in HealthySecondaries =>
                              lastDoc.members[j].optimeDate
                                  < lastDoc.members[Chosen].optimeDate
                      ELSE j \notin Primaries
    /\ pc = "init_failed" /\ lastDoc # NoDoc =>
          /\ lastDoc.host = "replset"
          /\ HealthySecondaries = {} /\ Primaries = {}
    /\ pc = "init_config" => Len(shards) = NumShards /\ lastDoc = NoDoc

\* A replica set none of whose members is in health, one of them in the
\* primary state: get_shards has returned that member.
C21_Witness ==
    /\ pc = "init_picked"
    /\ lastDoc.host = "replset"
    /\ HealthyMembers = {}
    /\ Chosen \in Primaries

(* ------------------------------------------------------------------- C22 *)

\* Step k of 7, 8, 9 is about to be called or is between two of its tries.
StepStarts(k) == mode = "forward" /\ step = k /\ pc \in {"call", "sleep"}

\* C22 (as stated): when step 7, 8 or 9 starts, its compensator -- the
\* step's own function -- is in the rollback log, and a run that aborted at
\* that step has had it called by the drain.
C22_CompensatorPresentAtStart ==
    \A k \in {7, 8, 9} :
        /\ StepStarts(k) => IsIn(rollback_steps, StepFn(k))
        /\ pc = "aborted" /\ step = k => Count(drainTrace, StepFn(k)) >= 1

\* C22 (amended): when step 7, 8 or 9 starts, and between its tries, its
\* compensator has already been removed from the rollback log, and a run
\* that aborted at that step has drained what was left and nothing else:
\* remove_snapshots, config_server.start, start_balancer after step 7,
\* remove_snapshots, start_balancer after step 8, remove_snapshots after
\* step 9.
C22_CompensatorRemovedAtStart ==
    \A k \in {7, 8, 9} :
        /\ StepStarts(k) => ~IsIn(rollback_steps, StepFn(k))
        /\ pc = "aborted" /\ step = k =>
              /\ Count(drainTrace, StepFn(k)) = 0
              /\ attempts[k] = Tries(k)
              /\ drainTrace =
                    CASE k = 7 -> <<"remove_snapshots", "config_server.start",
                                    "start_balancer">>
                      [] k = 8 -> <<"remove_snapshots", "start_balancer">>
                      [] OTHER -> <<"remove_snapshots">>

\* unlock_shards failed on both tries of step 7: the drain has run without
\* unlock_shards and a member is still locked.
C22_Witness ==
    /\ pc = "aborted"
    /\ step = 7
    /\ attempts[7] = 2
    /\ \E s \in Shards : is_locked[s]
    /\ Count(drainTrace, "unlock_shards") = 0
    /\ Len(drainTrace) = 3

(* ------------------------------------------------------------------- C23 *)

\* Function fn has been called, as a forward step k or by the drain.
Attempted(k, fn) == attempts[k] > 0 \/ IsIn(drainTrace, fn)

\* C23: in every run that has ended, done or aborted, each forward change
\* that was attempted has had its undo attempted: start_balancer if
\* stop_balancer was called, config_server.start if config_server.stop was
\* called, unlock on every shard if lock_shards was called, remove_snapshot
\* on every host if create_snapshots was called, unmount_snapshot on every
\* host if mount_snapshots was called.
C23_EveryAttemptedChangeHasUndoAttempted ==
    Terminated =>
        /\ attempts[1] > 0 => Attempted(9, "start_balancer")
        /\ attempts[3] > 0 => Attempted(8, "config_server.start")
        /\ attempts[5] > 0 =>
              /\ Attempted(7, "unlock_shards")
              /\ lastUnlock.visited = Shards
        /\ attempts[6] > 0 =>
              /\ Attempted(13, "remove_snapshots")
              /\ \A h \in Hosts : "remove" \in tried[h]
        /\ attempts[10] > 0 =>
              /\ Attempted(12, "unmount_snapshots")
              /\ \A h \in Hosts : "unmount" \in tried[h]

\* A run aborted after mount_snapshots was called, one of whose
\* compensators raised: every undo has been attempted all the same.
C23_Witness ==
    /\ pc = "aborted"
    /\ attempts[10] > 0
    /\ \E j \in 1..Len(drainResult) : ~drainResult[j]
    /\ \A h \in Hosts : {"unmount", "remove"} \subseteq tried[h]
    /\ attempts[7] > 0 /\ attempts[8] > 0 /\ attempts[9] > 0

====
